---- MODULE Spec2Model ----
(***************************************************************************)
(* A model of scripts/execute_z3py_docs.py: the driver that walks the      *)
(* markdown files of the documentation directory, extracts the z3-python   *)
(* code fences of each file, executes every snippet in one long-lived      *)
(* subinterpreter, collects one ExecutionResults record per snippet and    *)
(* finally prints the statistics and returns the exit status.              *)
(*                                                                         *)
(* Files are identified by a number k, standing for the file name "k.md".  *)
(* A snippet's text is a sequence of statements [op, name]:                *)
(*   import  - binds the public names of the z3 library                    *)
(*   use     - reads a top-level name (NameError when it is unbound)       *)
(*   bind    - binds a top-level name                                      *)
(*   raise   - raises the exception called name                            *)
(***************************************************************************)
EXTENDS Integers, Sequences, FiniteSets, TLC

VARIABLES
    pc,                 \* position of main(): "start", "files", "snippets",
                        \* "exec", "done", "aborted"
    pending,            \* files base_path.glob("*.md") has yet to yield
    md_file,            \* main's md_file (0 before the first file)
    rendered,           \* main's rendered: the AST of the current file
    gen_pos,            \* the generator's position: index of the last child examined
    i,                  \* main's i, the enumerate counter of the current file
    z3_snippet,         \* main's z3_snippet, the text last yielded
    execution_results,  \* main's execution_results
    interp,             \* the module-level subinterpreter: [id, ns]
    stdout,             \* what has been printed
    msg,                \* main's msg, the statistics text (<<>> before do_stats)
    error_count,        \* main's error_count (0 before do_stats)
    exit_status,        \* the status the process exits with (Running before)
    abort_cause,        \* the exception that ended the run, "None" otherwise
    exec_log,           \* history: one entry per call of execute_snippet
    blocks_read         \* history: number of top-level blocks read so far

vars == <<pc, pending, md_file, rendered, gen_pos, i, z3_snippet,
          execution_results, interp, stdout, msg, error_count, exit_status,
          abort_cause, exec_log, blocks_read>>

----------------------------------------------------------------------------
(* Bounds of the model. *)

\* The directory holds at most MaxFiles markdown files.
MaxFiles == 2

\* The files read in one run hold at most MaxBlocks top-level blocks in all.
MaxBlocks == 3

\* do_stats is applied to every sequence of at most MaxStatsLen records.
MaxStatsLen == 3

----------------------------------------------------------------------------
(* Values. *)

\* exit_status while the process is running
Running == 0 - 1

\* Python's None in the error field of a record
None == [type |-> "None", excinfo |-> "None"]

\* interpreters.ExecutionFailed carrying the snippet's own exception
ExecutionFailed(excinfo) == [type |-> "ExecutionFailed", excinfo |-> excinfo]

\* an OSError raised by print (a closed standard output)
OSError == [type |-> "OSError", excinfo |-> "None"]

\* the language tag of the executable fences
Marker == "z3-python"

\* the status of a process that ends by an unhandled exception
UncaughtExitStatus == 1

Stmt(op, name) == [op |-> op, name |-> name]

\* "from z3 import *\n"
Preamble == << Stmt("import", "z3") >>

\* the names "from z3 import *" binds
Z3Names == {"Int"}

\* x = Int('x')
BindX == << Stmt("use", "Int"), Stmt("bind", "x") >>

\* print(x)
UseX == << Stmt("use", "x") >>

\* x = Int('x'); raise ValueError("bad")
BindXRaise == << Stmt("use", "Int"), Stmt("bind", "x"), Stmt("raise", "ValueError") >>

----------------------------------------------------------------------------
(* The AST mistletoe renders: every node is [type, language, content,      *)
(* children].                                                              *)

Node(type, language, content, children) ==
    [type |-> type, language |-> language, content |-> content,
     children |-> children]

RawText(content) == Node("RawText", "", content, <<>>)

Emphasis == Node("Emphasis", "", <<>>, <<>>)

CodeFence(language, children) == Node("CodeFence", language, <<>>, children)

Quote(children) == Node("Quote", "", <<>>, children)

\* The blocks a document of the model is made of.
Blocks ==
    { CodeFence(Marker, << RawText(BindX) >>),
      CodeFence(Marker, << RawText(UseX) >>),
      CodeFence(Marker, << RawText(BindXRaise) >>),
      CodeFence(Marker, << Emphasis >>),
      CodeFence(Marker, << RawText(BindX), RawText(UseX) >>),
      CodeFence("Z3-Python", << RawText(BindXRaise) >>),
      Quote(<< CodeFence(Marker, << RawText(BindXRaise) >>) >>) }

Document(children) == Node("Document", "", <<>>, children)

\* The documents of at most n top-level blocks.
Documents(n) == { Document(c) : c \in UNION { [1..k -> Blocks] : k \in 0..n } }

----------------------------------------------------------------------------
(* z3_snippets_from_ast: one resumption of the generator, from the child   *)
(* after pos.  The result is what the resumption ends with: a yield of a   *)
(* snippet, an AssertionError or the end of the iteration, and the index   *)
(* of the child it ended at.                                               *)

\* a comparison that ignores the case of the tag
LanguageMatchesAnyCase(language) == language \in {"z3-python", "Z3-Python"}

LanguageMatches(language) == language = Marker

\* a generator that skips a malformed fence instead of asserting
RECURSIVE z3_snippets_skipping(_, _)
z3_snippets_skipping(mistletoe_ast, pos) ==
    IF pos + 1 > Len(mistletoe_ast.children)
    THEN [kind |-> "StopIteration", pos |-> pos + 1, z3_snippet |-> <<>>]
    ELSE LET child == mistletoe_ast.children[pos + 1] IN
         IF \/ child.type # "CodeFence"
            \/ ~LanguageMatches(child.language)
            \/ Len(child.children) # 1
         THEN z3_snippets_skipping(mistletoe_ast, pos + 1)
         ELSE IF child.children[1].type # "RawText"
         THEN z3_snippets_skipping(mistletoe_ast, pos + 1)
         ELSE [kind |-> "yield", pos |-> pos + 1,
               z3_snippet |-> child.children[1].content]

\* an extraction that checks and collects every fence of the file before
\* the first snippet is handed out (a list instead of a generator)
RECURSIVE z3_snippets_eager(_, _)
z3_snippets_eager(mistletoe_ast, pos) ==
    LET bad == { q \in 1..Len(mistletoe_ast.children) :
                   LET c == mistletoe_ast.children[q] IN
                   /\ c.type = "CodeFence"
                   /\ LanguageMatches(c.language)
                   /\ \/ Len(c.children) # 1
                      \/ c.children[1].type # "RawText" }
    IN  IF bad # {}
        THEN [kind |-> "AssertionError",
              pos |-> CHOOSE q \in bad : \A r \in bad : q <= r,
              z3_snippet |-> <<>>]
        ELSE IF pos + 1 > Len(mistletoe_ast.children)
        THEN [kind |-> "StopIteration", pos |-> pos + 1, z3_snippet |-> <<>>]
        ELSE LET child == mistletoe_ast.children[pos + 1] IN
             IF child.type # "CodeFence" \/ ~LanguageMatches(child.language)
             THEN z3_snippets_eager(mistletoe_ast, pos + 1)
             ELSE [kind |-> "yield", pos |-> pos + 1,
                   z3_snippet |-> child.children[1].content]

RECURSIVE z3_snippets_from_ast(_, _)
z3_snippets_from_ast(mistletoe_ast, pos) ==
    IF pos + 1 > Len(mistletoe_ast.children)
    THEN [kind |-> "StopIteration", pos |-> pos + 1, z3_snippet |-> <<>>]
    ELSE LET child == mistletoe_ast.children[pos + 1] IN
         IF child.type # "CodeFence"
         THEN z3_snippets_from_ast(mistletoe_ast, pos + 1)
         ELSE IF ~LanguageMatches(child.language)
         THEN z3_snippets_from_ast(mistletoe_ast, pos + 1)
         ELSE IF Len(child.children) # 1
         THEN [kind |-> "AssertionError", pos |-> pos + 1, z3_snippet |-> <<>>]
         ELSE IF child.children[1].type # "RawText"
         THEN [kind |-> "AssertionError", pos |-> pos + 1, z3_snippet |-> <<>>]
         ELSE [kind |-> "yield", pos |-> pos + 1,
               z3_snippet |-> child.children[1].content]

----------------------------------------------------------------------------
(* interp.exec: the statements of src run in order in the namespace ns of  *)
(* the subinterpreter; the first exception ends the run and is reported as *)
(* ExecutionFailed, the bindings made before it stay.                      *)

RECURSIVE interp_exec_from(_, _, _)
interp_exec_from(src, k, ns) ==
    IF k > Len(src)
    THEN [ns |-> ns, raised |-> None]
    ELSE LET stmt == src[k] IN
         CASE stmt.op = "import" -> interp_exec_from(src, k + 1, ns \cup Z3Names)
           [] stmt.op = "bind" -> interp_exec_from(src, k + 1, ns \cup {stmt.name})
           [] stmt.op = "use" ->
                IF stmt.name \in ns
                THEN interp_exec_from(src, k + 1, ns)
                ELSE [ns |-> ns, raised |-> ExecutionFailed("NameError")]
           [] OTHER -> [ns |-> ns, raised |-> ExecutionFailed(stmt.name)]

interp_exec(itp, src) ==
    LET r == interp_exec_from(src, 1, itp.ns) IN
    [interp |-> [itp EXCEPT !.ns = r.ns], raised |-> r.raised]

\* A line of standard output.
Line(kind, file_name, snippet_id, text) ==
    [kind |-> kind, file_name |-> file_name, snippet_id |-> snippet_id,
     text |-> text]

\* an executor that creates a fresh subinterpreter for every snippet
execute_snippet_fresh(snippet, itp, fault) ==
    LET src == Preamble \o snippet
        fresh == [id |-> itp.id + 1, ns |-> {}]
        run == interp_exec(fresh, src)
    IN  IF fault = "OSError"
        THEN [interp |-> itp, raised |-> OSError, printed |-> <<>>, src |-> src]
        ELSE [interp |-> run.interp, raised |-> run.raised,
              printed |-> << Line("fence z3-python", 0, 0, <<>>),
                             Line("src", 0, 0, src), Line("fence", 0, 0, <<>>),
                             Line("RESULT:", 0, 0, <<>>) >>,
              src |-> src]

\* execute_snippet: the composed source is printed, then executed.  fault is
\* the environment's: "OSError" when standard output refuses the first print.
execute_snippet(snippet, itp, fault) ==
    LET src == Preamble \o snippet
        printed == << Line("fence z3-python", 0, 0, <<>>), Line("src", 0, 0, src),
                      Line("fence", 0, 0, <<>>), Line("RESULT:", 0, 0, <<>>) >>
        run == interp_exec(itp, src)
    IN  IF fault = "OSError"
        THEN [interp |-> itp, raised |-> OSError, printed |-> <<>>, src |-> src]
        ELSE [interp |-> run.interp, raised |-> run.raised, printed |-> printed,
              src |-> src]

----------------------------------------------------------------------------
(* ExecutionResults and do_stats. *)

ExecutionResults(file_name, snippet_id, error) ==
    [file_name |-> file_name, snippet_id |-> snippet_id, error |-> error]

was_successful(execution_result) == execution_result.error = None

\* A line of the statistics text.
StatsLine(kind, result, errors, total) ==
    [kind |-> kind, result |-> result, error_count |-> errors,
     total_count |-> total]

NoResult == ExecutionResults(0, 0, None)

\* the loop of do_stats, from the k-th record on
RECURSIVE do_stats_loop(_, _, _, _, _)
do_stats_loop(results, k, s, total, errors) ==
    IF k > Len(results)
    THEN [s |-> s, total_count |-> total, error_count |-> errors]
    ELSE IF ~was_successful(results[k])
         THEN do_stats_loop(results, k + 1,
                            Append(s, StatsLine("failed", results[k], 0, 0)),
                            total + 1, errors + 1)
         ELSE do_stats_loop(results, k + 1, s, total + 1, errors)

\* a summary line with its two counts exchanged
do_stats_swapped(results) ==
    LET header == << StatsLine("=== EXECUTION STATS ===", NoResult, 0, 0) >>
        loop == do_stats_loop(results, 1, header, 0, 0)
    IN  [msg |-> Append(loop.s,
                        StatsLine("There were", NoResult, loop.total_count,
                                  loop.error_count)),
         error_count |-> loop.error_count]

do_stats(results) ==
    LET header == << StatsLine("=== EXECUTION STATS ===", NoResult, 0, 0) >>
        loop == do_stats_loop(results, 1, header, 0, 0)
    IN  [msg |-> Append(loop.s,
                        StatsLine("There were", NoResult, loop.error_count,
                                  loop.total_count)),
         error_count |-> loop.error_count]

\* a return of the count itself
ExitCodeCount(errors) == errors

\* main's return value
ExitCode(errors) == IF errors = 0 THEN 0 ELSE 1

----------------------------------------------------------------------------
(* main. *)

\* "except Exception"
CaughtAny(exc) == exc.type \in {"ExecutionFailed", "OSError"}

\* no except clause
CaughtNothing(exc) == FALSE

\* "except interpreters.ExecutionFailed"
Caught(exc) == exc.type = "ExecutionFailed"

\* execution_results.insert(0, execution_result)
CollectFront(results, execution_result) == << execution_result >> \o results

\* execution_results.append(execution_result)
Collect(results, execution_result) == Append(results, execution_result)

\* The state once the module is loaded and main() is entered.
Init ==
    /\ pc = "start"
    /\ pending \in { 1..n : n \in 0..MaxFiles }
    /\ md_file = 0
    /\ rendered = Document(<<>>)
    /\ gen_pos = 0
    /\ i = 0
    /\ z3_snippet = <<>>
    /\ execution_results = <<>>
    /\ interp = [id |-> 0, ns |-> {}]
    /\ stdout = <<>>
    /\ msg = <<>>
    /\ error_count = 0
    /\ exit_status = Running
    /\ abort_cause = "None"
    /\ exec_log = <<>>
    /\ blocks_read = 0

\* An unhandled exception ends the process.
Abort(cause) ==
    /\ pc' = "aborted"
    /\ abort_cause' = cause
    /\ exit_status' = UncaughtExitStatus

\* Path(...).resolve(strict=True)
ResolveBasePath ==
    /\ pc = "start"
    /\ \E exists \in BOOLEAN :
          IF exists
          THEN /\ pc' = "files"
               /\ UNCHANGED <<abort_cause, exit_status>>
          ELSE Abort("FileNotFoundError")
    /\ UNCHANGED <<pending, md_file, rendered, gen_pos, i, z3_snippet,
                   execution_results, interp, stdout, msg, error_count,
                   exec_log, blocks_read>>

\* The glob yields the next file, in no particular order; the file is
\* parsed and its generator created.
OpenFile ==
    /\ pc = "files"
    /\ \E f \in pending, ast \in Documents(MaxBlocks - blocks_read) :
          /\ pending' = pending \ {f}
          /\ md_file' = f
          /\ rendered' = ast
          /\ blocks_read' = blocks_read + Len(ast.children)
          /\ stdout' = Append(stdout, Line("VALIDATING FILE", f, 0, <<>>))
    /\ gen_pos' = 0
    /\ i' = 0
    /\ pc' = "snippets"
    /\ UNCHANGED <<z3_snippet, execution_results, interp, msg, error_count,
                   exit_status, abort_cause, exec_log>>

\* The generator yields the next snippet.
YieldSnippet ==
    /\ pc = "snippets"
    /\ LET g == z3_snippets_from_ast(rendered, gen_pos) IN
          /\ g.kind = "yield"
          /\ gen_pos' = g.pos
          /\ z3_snippet' = g.z3_snippet
    /\ i' = i + 1
    /\ pc' = "exec"
    /\ UNCHANGED <<pending, md_file, rendered, execution_results, interp,
                   stdout, msg, error_count, exit_status, abort_cause,
                   exec_log, blocks_read>>

\* An assertion of the generator fails: nothing handles it.
AssertFail ==
    /\ pc = "snippets"
    /\ LET g == z3_snippets_from_ast(rendered, gen_pos) IN
          /\ g.kind = "AssertionError"
          /\ gen_pos' = g.pos
    /\ Abort("AssertionError")
    /\ UNCHANGED <<pending, md_file, rendered, i, z3_snippet,
                   execution_results, interp, stdout, msg, error_count,
                   exec_log, blocks_read>>

\* The generator is exhausted: the file is finished.
FinishFile ==
    /\ pc = "snippets"
    /\ LET g == z3_snippets_from_ast(rendered, gen_pos) IN
          /\ g.kind = "StopIteration"
          /\ gen_pos' = g.pos
    /\ stdout' = Append(stdout, Line("FINISHED VALIDATING", md_file, 0, <<>>))
    /\ pc' = "files"
    /\ UNCHANGED <<pending, md_file, rendered, i, z3_snippet,
                   execution_results, interp, msg, error_count, exit_status,
                   abort_cause, exec_log, blocks_read>>

\* The body of the inner loop: the record is built, the snippet executed,
\* an ExecutionFailed stored in the record, and the record appended in the
\* finally clause whatever happened.
Execute ==
    /\ pc = "exec"
    /\ \E fault \in {"none", "OSError"} :
          LET call == execute_snippet(z3_snippet, interp, fault)
              handled == call.raised = None \/ Caught(call.raised)
              execution_result ==
                  ExecutionResults(md_file, i,
                      IF call.raised # None /\ Caught(call.raised)
                      THEN call.raised ELSE None)
          IN  /\ stdout' = Append(stdout, Line("Executing snippet", md_file, i, <<>>))
                              \o call.printed
              /\ interp' = call.interp
              /\ execution_results' = Collect(execution_results, execution_result)
              /\ exec_log' = Append(exec_log,
                    [file_name |-> md_file, snippet_id |-> i, src |-> call.src,
                     raised |-> call.raised, ns_before |-> interp.ns,
                     ns_after |-> call.interp.ns])
              /\ IF handled
                 THEN /\ pc' = "snippets"
                      /\ UNCHANGED <<abort_cause, exit_status>>
                 ELSE Abort(call.raised.type)
    /\ UNCHANGED <<pending, md_file, rendered, gen_pos, i, z3_snippet,
                   msg, error_count, blocks_read>>

\* The glob is exhausted: the statistics are printed and main returns.
Report ==
    /\ pc = "files"
    /\ pending = {}
    /\ LET stats == do_stats(execution_results) IN
          /\ msg' = stats.msg
          /\ error_count' = stats.error_count
          /\ stdout' = Append(stdout, Line("stats", 0, 0, stats.msg))
          /\ exit_status' = ExitCode(stats.error_count)
    /\ pc' = "done"
    /\ UNCHANGED <<pending, md_file, rendered, gen_pos, i, z3_snippet,
                   execution_results, interp, abort_cause, exec_log,
                   blocks_read>>

Next ==
    \/ ResolveBasePath
    \/ OpenFile
    \/ YieldSnippet
    \/ AssertFail
    \/ FinishFile
    \/ Execute
    \/ Report

Spec == Init /\ [][Next]_vars


----------------------------------------------------------------------------
(* do_stats on its own: applied to every sequence of at most MaxStatsLen   *)
(* records.                                                                *)

StatsRecords ==
    { ExecutionResults(f, n, e) :
        f \in {1, 2}, n \in {1, 2}, e \in {None, ExecutionFailed("ValueError")} }

StatsInit ==
    /\ pc = "stats"
    /\ execution_results \in UNION { [1..n -> StatsRecords] : n \in 0..MaxStatsLen }
    /\ pending = {}
    /\ md_file = 0
    /\ rendered = Document(<<>>)
    /\ gen_pos = 0
    /\ i = 0
    /\ z3_snippet = <<>>
    /\ interp = [id |-> 0, ns |-> {}]
    /\ stdout = <<>>
    /\ msg = <<>>
    /\ error_count = 0
    /\ exit_status = Running
    /\ abort_cause = "None"
    /\ exec_log = <<>>
    /\ blocks_read = 0

StatsCall ==
    /\ pc = "stats"
    /\ LET stats == do_stats(execution_results) IN
          /\ msg' = stats.msg
          /\ error_count' = stats.error_count
    /\ pc' = "stats_done"
    /\ UNCHANGED <<pending, md_file, rendered, gen_pos, i, z3_snippet,
                   execution_results, interp, stdout, exit_status,
                   abort_cause, exec_log, blocks_read>>

StatsNext == StatsCall

SpecStats == StatsInit /\ [][StatsNext]_vars

----------------------------------------------------------------------------
(* What the properties below speak of. *)

\* the records of file f, in the order of the run-wide sequence
RecordsOf(f) == SelectSeq(execution_results, LAMBDA r : r.file_name = f)

\* the calls of execute_snippet for file f, in order
ExecutedOf(f) == SelectSeq(exec_log, LAMBDA e : e.file_name = f)

IsMarkerFence(node) == node.type = "CodeFence" /\ node.language = "z3-python"

WellFormed(node) == Len(node.children) = 1 /\ node.children[1].type = "RawText"

\* the fences tagged z3-python among the first n children of the document
MarkerFencesUpTo(ast, n) == SelectSeq(SubSeq(ast.children, 1, n), IsMarkerFence)

MarkerFences(ast) == MarkerFencesUpTo(ast, Len(ast.children))

\* the texts of the fences tagged z3-python anywhere below nodes, in
\* document order
RECURSIVE MarkerTextsBelow(_)
MarkerTextsBelow(nodes) ==
    IF nodes = <<>>
    THEN <<>>
    ELSE LET n == Head(nodes)
             here == IF IsMarkerFence(n)
                     THEN IF WellFormed(n) THEN << n.children[1].content >> ELSE <<>>
                     ELSE IF n.type = "CodeFence" THEN <<>>
                     ELSE MarkerTextsBelow(n.children)
         IN  here \o MarkerTextsBelow(Tail(nodes))

\* the driver has just finished the file md_file, whose AST is rendered
FileFinished == pc \in {"files", "done"} /\ md_file # 0

\* the statistics have been printed
SummaryPrinted == \E k \in 1..Len(stdout) : stdout[k].kind = "stats"

Failed(k) == exec_log[k].raised.type = "ExecutionFailed"

FailedRecords == SelectSeq(execution_results, LAMBDA r : r.error # None)

----------------------------------------------------------------------------
\* C1: when main() reaches the report, the exit status is 0 if and only if
\* no outcome record has a failure set, and 1 otherwise; no other value.
C1_ExitStatus ==
    pc = "done" =>
        /\ exit_status \in {0, 1}
        /\ exit_status = 0 <=>
              \A k \in 1..Len(execution_results) : execution_results[k].error = None
        /\ exit_status = 1 <=> error_count # 0

\* a finished run with a failed and a passed snippet exits with 1
C1_Witness ==
    /\ pc = "done"
    /\ exit_status = 1
    /\ Len(execution_results) = 3
    /\ Len(FailedRecords) = 2

\* C2: when the driver has finished a file whose document holds N fences
\* tagged exactly z3-python, the run holds exactly N records with that
\* file's name, numbered 1..N in document order (the k-th record is the
\* k-th such fence, executed with the preamble before its text); fences
\* with another tag and other blocks give no record, N = 0 gives none.
C2_RecordsPerFile ==
    FileFinished =>
        LET fences == MarkerFences(rendered)
            recs == RecordsOf(md_file)
            runs == ExecutedOf(md_file)
        IN  /\ Len(recs) = Len(fences)
            /\ Len(runs) = Len(fences)
            /\ \A k \in 1..Len(fences) :
                  /\ recs[k].snippet_id = k
                  /\ runs[k].snippet_id = k
                  /\ runs[k].src = Preamble \o fences[k].children[1].content

\* two files: the second file's numbering restarts at 1 after 1, 2
C2_Witness ==
    /\ FileFinished
    /\ Len(execution_results) = 3
    /\ execution_results[2].snippet_id = 2
    /\ execution_results[3].snippet_id = 1
    /\ execution_results[3].file_name # execution_results[2].file_name

\* a finished file without any z3-python fence, holding a fence of another tag
C2_WitnessNone ==
    /\ FileFinished
    /\ RecordsOf(md_file) = <<>>
    /\ \E p \in 1..Len(rendered.children) : rendered.children[p].type = "CodeFence"

\* C3, as claimed: a record's failure is set if and only if the execution
\* of its snippet raised an error of any kind.
C3_FailureIffAnyError ==
    \A k \in 1..Len(execution_results) :
        execution_results[k].error # None <=> exec_log[k].raised # None

\* C3, amended: a record's failure is set if and only if the execution of
\* its snippet raised ExecutionFailed, and it is then that exception; a
\* snippet whose execution raised another error has a record with no
\* failure, the last of the run, which that error aborted.
C3_FailureIffExecutionFailed ==
    /\ Len(execution_results) = Len(exec_log)
    /\ \A k \in 1..Len(execution_results) :
          /\ execution_results[k].error # None <=> Failed(k)
          /\ Failed(k) => execution_results[k].error = exec_log[k].raised
          /\ exec_log[k].raised.type \notin {"None", "ExecutionFailed"} =>
                /\ k = Len(execution_results)
                /\ pc = "aborted"
                /\ abort_cause = exec_log[k].raised.type

\* a failed record, then a record without failure for a snippet whose
\* execution raised OSError
C3_Witness ==
    /\ Len(execution_results) = 2
    /\ execution_results[1].error = ExecutionFailed("ValueError")
    /\ exec_log[2].raised = OSError
    /\ execution_results[2].error = None

\* C4: an ExecutionFailed is recorded in exactly one record, its snippet is
\* executed once, the driver goes on with the generator of the same file
\* and never aborts by it, the failure counts 1 in the final error count,
\* and after it the run is never stuck short of the report: it has reported,
\* or can take its next step, or a fatal error of another kind has ended it.
C4_State ==
    /\ abort_cause # "ExecutionFailed"
    /\ (\E k \in 1..Len(exec_log) : Failed(k)) =>
          \/ pc = "done"
          \/ pc = "aborted" /\ abort_cause \in {"AssertionError", "OSError"}
          \/ ENABLED Next
    /\ \A k \in 1..Len(exec_log) :
          /\ \A j \in 1..Len(exec_log) :
                (/\ exec_log[j].file_name = exec_log[k].file_name
                 /\ exec_log[j].snippet_id = exec_log[k].snippet_id) => j = k
          /\ Failed(k) =>
                Cardinality({ j \in 1..Len(execution_results) :
                    /\ execution_results[j].file_name = exec_log[k].file_name
                    /\ execution_results[j].snippet_id = exec_log[k].snippet_id
                    /\ execution_results[j].error # None }) = 1
    /\ pc = "done" =>
          error_count = Cardinality({ k \in 1..Len(exec_log) : Failed(k) })

C4_Step ==
    (/\ pc = "exec"
     /\ Len(exec_log') = Len(exec_log) + 1
     /\ exec_log'[Len(exec_log')].raised.type = "ExecutionFailed")
    => /\ pc' = "snippets"
       /\ md_file' = md_file
       /\ rendered' = rendered
       /\ gen_pos' = gen_pos
       /\ pending' = pending

\* C4: in every state C4_State holds, and every step that records an
\* ExecutionFailed leaves the driver at the generator of the same file.
C4_FailureDoesNotStop ==
    /\ []C4_State
    /\ [][C4_Step]_vars

\* a failure in the first file, a later snippet of that file and a snippet
\* of a later file, and the report reached with that one failure counted
C4_Witness ==
    /\ pc = "done"
    /\ Len(execution_results) = 3
    /\ execution_results[1].error # None
    /\ execution_results[2].file_name = execution_results[1].file_name
    /\ execution_results[3].file_name # execution_results[1].file_name
    /\ error_count = 1

\* C5: do_stats reports error_count = the number of records with a failure
\* and total_count = the length of the sequence; the text is the header,
\* then exactly the failed records in their order, then the line with the
\* two counts; the sequence is left as it was.
C5_StatsText ==
    pc = "stats_done" =>
        LET failed == FailedRecords IN
        /\ error_count = Len(failed)
        /\ error_count =
              Cardinality({ k \in 1..Len(execution_results) :
                              execution_results[k].error # None })
        /\ Len(msg) = Len(failed) + 2
        /\ msg[1].kind = "=== EXECUTION STATS ==="
        /\ \A k \in 1..Len(failed) :
              msg[k + 1].kind = "failed" /\ msg[k + 1].result = failed[k]
        /\ msg[Len(msg)].kind = "There were"
        /\ msg[Len(msg)].error_count = Len(failed)
        /\ msg[Len(msg)].total_count = Len(execution_results)

\* C5: the text and the counts of do_stats are as C5_StatsText says, and
\* do_stats leaves the sequence of records unchanged.
C5_Stats ==
    /\ []C5_StatsText
    /\ [][execution_results' = execution_results]_vars

\* two passing snippets of one file and a failing one of another:
\* "1 errors over 3 snippets"
C5_Witness ==
    /\ pc = "stats_done"
    /\ execution_results = << ExecutionResults(1, 1, None),
                              ExecutionResults(1, 2, None),
                              ExecutionResults(2, 1, ExecutionFailed("ValueError")) >>
    /\ msg[Len(msg)].error_count = 1
    /\ msg[Len(msg)].total_count = 3
    /\ Len(msg) = 3

\* C6, as claimed: the snippets extracted from a finished file are the texts
\* of all its fences tagged z3-python, wherever they occur in the document,
\* in document order, each text unmodified.
C6_EveryFenceAnywhere ==
    FileFinished =>
        LET runs == ExecutedOf(md_file)
            texts == MarkerTextsBelow(rendered.children)
        IN  /\ Len(runs) = Len(texts)
            /\ \A k \in 1..Len(texts) : runs[k].src = Preamble \o texts[k]

\* C7: a fence tagged z3-python that has not exactly one child, or whose
\* child is not raw text, ends the run when the generator reaches it: the
\* process exits with a non-zero status by an AssertionError, the block has
\* no record, no record ever holds anything but an ExecutionFailed, no
\* summary is printed, and nothing is processed after it.
C7_State ==
    /\ \A p \in 1..Len(rendered.children) :
          (p <= gen_pos /\ IsMarkerFence(rendered.children[p])
                        /\ ~WellFormed(rendered.children[p])) =>
             /\ pc = "aborted"
             /\ abort_cause = "AssertionError"
             /\ p = gen_pos
             /\ exit_status \notin {0, Running}
             /\ ~SummaryPrinted
             /\ msg = <<>>
             /\ Len(RecordsOf(md_file)) = Len(MarkerFencesUpTo(rendered, p - 1))
             /\ Len(ExecutedOf(md_file)) = Len(MarkerFencesUpTo(rendered, p - 1))
    /\ abort_cause = "AssertionError" =>
          /\ IsMarkerFence(rendered.children[gen_pos])
          /\ ~WellFormed(rendered.children[gen_pos])
    /\ \A k \in 1..Len(execution_results) :
          execution_results[k].error.type \in {"None", "ExecutionFailed"}

\* C7: in every state C7_State holds, and no step is taken once the run
\* has aborted (no later snippet or file is processed).
C7_MalformedIsFatal ==
    /\ []C7_State
    /\ [][pc # "aborted"]_vars

\* the run aborted on a malformed fence after a snippet of the same file
\* failed, with a file still to be read
C7_Witness ==
    /\ pc = "aborted"
    /\ abort_cause = "AssertionError"
    /\ Len(RecordsOf(md_file)) = 1
    /\ execution_results[1].error # None
    /\ pending # {}

\* C8: one subinterpreter serves the whole run: it is never recreated, each
\* snippet starts in the namespace the snippet before it left (the first in
\* the empty one), in the same file or in an earlier one, whether that
\* snippet passed or failed, and no binding is ever lost.
C8_OneContext ==
    /\ interp.id = 0
    /\ interp.ns = IF exec_log = <<>> THEN {} ELSE exec_log[Len(exec_log)].ns_after
    /\ \A k \in 1..Len(exec_log) :
          /\ exec_log[k].ns_before =
                IF k = 1 THEN {} ELSE exec_log[k - 1].ns_after
          /\ exec_log[k].ns_before \subseteq exec_log[k].ns_after

\* print(x) fails, then a failing snippet binds x before it raises, then
\* print(x) passes in a later file
C8_Witness ==
    /\ Len(exec_log) = 3
    /\ exec_log[1].src = Preamble \o UseX
    /\ exec_log[1].raised = ExecutionFailed("NameError")
    /\ exec_log[2].raised = ExecutionFailed("ValueError")
    /\ exec_log[3].src = Preamble \o UseX
    /\ exec_log[3].raised = None
    /\ exec_log[3].file_name # exec_log[2].file_name

\* C9: the outcome sequence is append-only and in execution order: a step
\* leaves it unchanged or appends one record at its end, and its k-th
\* record is that of the k-th snippet executed.
C9_State ==
    /\ Len(execution_results) = Len(exec_log)
    /\ \A k \in 1..Len(execution_results) :
          /\ execution_results[k].file_name = exec_log[k].file_name
          /\ execution_results[k].snippet_id = exec_log[k].snippet_id

C9_Step ==
    \/ execution_results' = execution_results
    \/ /\ Len(execution_results') = Len(execution_results) + 1
       /\ SubSeq(execution_results', 1, Len(execution_results)) = execution_results

\* C9: in every state the k-th record is that of the k-th execution, and
\* every step leaves the sequence unchanged or appends one record.
C9_AppendOnly ==
    /\ []C9_State
    /\ [][C9_Step]_vars

\* three records of two files
C9_Witness ==
    /\ Len(execution_results) = 3
    /\ execution_results[1].file_name # execution_results[3].file_name

\* C10: extraction is interleaved with execution: when the generator hands
\* out or rejects the k-th z3-python fence of a file, the k-1 fences before
\* it have been executed and recorded; so when a malformed fence aborts the
\* run, the earlier snippets of the file and of the files before it have run
\* and left their records and bindings, and no summary is printed.
C10_LazyExtraction ==
    /\ pc = "exec" =>
          /\ i = Len(MarkerFencesUpTo(rendered, gen_pos))
          /\ Len(RecordsOf(md_file)) = i - 1
          /\ Len(ExecutedOf(md_file)) = i - 1
    /\ (pc = "aborted" /\ abort_cause = "AssertionError") =>
          /\ Len(RecordsOf(md_file)) = Len(MarkerFencesUpTo(rendered, gen_pos - 1))
          /\ Len(ExecutedOf(md_file)) = Len(MarkerFencesUpTo(rendered, gen_pos - 1))
          /\ Len(exec_log) = Len(execution_results)
          /\ interp.ns = IF exec_log = <<>> THEN {}
                         ELSE exec_log[Len(exec_log)].ns_after
          /\ ~SummaryPrinted

\* the run aborted on the second fence of the second file: the snippet
\* before it and the snippet of the first file have run, x is bound
C10_Witness ==
    /\ pc = "aborted"
    /\ abort_cause = "AssertionError"
    /\ Len(execution_results) = 2
    /\ execution_results[1].file_name # md_file
    /\ execution_results[2].file_name = md_file
    /\ "x" \in interp.ns
    /\ ~SummaryPrinted

====
